---- MODULE Spec2Model ----
(***************************************************************************)
(* The filesystem-mediated request/response queue of claude-text-editor.   *)
(*                                                                         *)
(*   src/claude_text_client.py   ClaudeTextClient.process_text (submitter) *)
(*   src/text-editor-server.py   TextEditorServer (worker, monitor loop)   *)
(*                                                                         *)
(* Time is counted in ticks of the submitter's poll interval (0.5 s).      *)
(* File names are sequences of string tokens, built and matched the way    *)
(* the code builds and globs them.                                         *)
(***************************************************************************)
EXTENDS Integers, Sequences, FiniteSets, TLC

(* ------------------------------ bounds ------------------------------- *)
\* number of concurrent process_text calls
NumSubmitters == 2
\* last tick of the wall clock
MaxTime == 3
\* last sub-tick reading of the microsecond clock
MaxMicro == 1
\* largest timeout argument, in seconds
MaxTimeout == 1
\* monitor tasks created in a run (start_monitoring calls that take effect)
MaxTasks == 2
\* worker process crashes (each followed by a fresh TextEditorServer)
MaxCrashes == 1

(* ------------------------- program constants ------------------------- *)
\* time.sleep(0.5) is one tick, so one second is two ticks
TicksPerSecond == 2
\* asyncio.sleep(1) of the monitor loop, in seconds
MonitorSleepSeconds == 1
\* asyncio.sleep(5) of the monitor loop after an error, in seconds
ErrorSleepSeconds == 5

Submitters == 1..NumSubmitters
Tasks == 1..MaxTasks
Timeouts == 1..MaxTimeout
UsecPerTick == MaxMicro + 1

VARIABLES
    now,              \* wall clock, ticks
    micro,            \* last reading of the microsecond clock within the tick
    inbox,            \* ~/.claude_text_editor/inbox : name -> [content, mtime]
    outbox,           \* ~/.claude_text_editor/outbox: name -> content
    spc,              \* position of each process_text call (numbered in start order)
    timeout,          \* its timeout argument, seconds
    timestamp,        \* its local `timestamp`
    start_time,       \* its local `start_time`
    swake,            \* the tick from which it may test its loop condition
    response_file,    \* its local `response_file`
    result,           \* what it returned
    text,             \* its `text` argument
    processed_files,  \* TextEditorServer.processed_files
    monitoring,       \* TextEditorServer.monitoring
    wpc,              \* position inside _process_next_file
    file_path,        \* its local `file_path` (name)
    content,          \* its local `content`
    wresponse,        \* its local `response_file` (name)
    mstate,           \* position of each _monitor_folder task
    msnap,            \* names its `for file_path in glob` has yet to visit
    mwake,            \* the tick from which it may test `self.monitoring`
    delivered,        \* PROCESS_FILE results in the hands of the MCP client
    crashes,          \* worker processes that have died
    selectedLog,      \* names this worker process has selected, in order
    crashedOn         \* request a dead worker had claimed but not returned

vars == <<now, micro, inbox, outbox, spc, timeout, timestamp, start_time, swake,
          response_file, result, text, processed_files, monitoring, wpc,
          file_path, content, wresponse, mstate, msnap, mwake, delivered,
          crashes, selectedLog, crashedOn>>

clockVars == <<now, micro>>
subVars == <<spc, timeout, timestamp, start_time, swake, response_file, result, text>>
srvVars == <<processed_files, monitoring, wpc, file_path, content,
             wresponse, selectedLog>>
monVars == <<mstate, msnap, mwake>>
envVars == <<delivered, crashes, crashedOn>>

(* --------------------------- directories ----------------------------- *)
Put(dir, name, v) == [n \in DOMAIN dir \cup {name} |-> IF n = name THEN v ELSE dir[n]]
Unlink(dir, name) == [n \in DOMAIN dir \ {name} |-> dir[n]]
Exists(dir, name) == name \in DOMAIN dir
NoName == <<>>
NoText == ""

(* ------------------------------ names -------------------------------- *)
DigitStr == <<"0", "1", "2", "3", "4", "5", "6", "7", "8", "9">>

\* a zero-padded two-digit field, as strftime pads %S and %f
Pad2(n) == <<DigitStr[((n \div 10) % 10) + 1], DigitStr[(n % 10) + 1]>>

\* str(n) of a non-negative integer below 100: no padding
Str(n) == IF n < 10 THEN <<DigitStr[n + 1]>> ELSE Pad2(n)

\* datetime.now().strftime("%Y%m%d_%H%M%S_%f") at tick t, microsecond u
Strftime(t, u) ==
    <<"20250101", "_">> \o Pad2(t \div TicksPerSecond) \o <<"_">>
        \o Pad2((t % TicksPerSecond) * UsecPerTick + u)

\* f"text_{timestamp}.txt"
InputFilename(ts) == <<"text", "_">> \o ts \o <<".txt">>

\* f"response_text_{timestamp}_*.txt"
ResponsePattern(ts) == <<"response", "_", "text", "_">> \o ts \o <<"_", "*", ".txt">>

\* Path.stem: the name without its last suffix
Stem(name) ==
    IF Len(name) > 1 /\ name[Len(name)] = ".txt" THEN SubSeq(name, 1, Len(name) - 1)
    ELSE name

\* int(time.time()) at tick t
IntTime(t) == t \div TicksPerSecond

\* a response name made of file_path.name instead of file_path.stem
ResponseFileName_WholeName(name, t) ==
    <<"response", "_">> \o name \o <<"_">> \o Str(IntTime(t)) \o <<".txt">>

\* f"response_{file_path.stem}_{int(time.time())}.txt"
ResponseFileName(name, t) ==
    <<"response", "_">> \o Stem(name) \o <<"_">> \o Str(IntTime(t)) \o <<".txt">>

\* fnmatch of a name against a pattern whose "*" matches any run of tokens
RECURSIVE GlobMatch(_, _)
GlobMatch(pat, name) ==
    IF pat = <<>> THEN name = <<>>
    ELSE IF Head(pat) = "*"
         THEN \E k \in 0..Len(name) : GlobMatch(Tail(pat), SubSeq(name, k + 1, Len(name)))
         ELSE /\ name # <<>>
              /\ Head(name) = Head(pat)
              /\ GlobMatch(Tail(pat), Tail(name))

\* Path.glob(pattern) on a directory
Glob(dir, pat) == {n \in DOMAIN dir : GlobMatch(pat, n)}

TxtPattern == <<"*", ".txt">>

(* ----------------------------- payloads ------------------------------ *)
\* the text each call submits unless said otherwise; distinct calls submit
\* distinct texts
PayloadText == <<"alpha", "beta", "gamma", "delta">>
Payload(s) == text[s]

TimeoutError == "Error: Timeout waiting for Claude response"
WriteError == "Error: Failed to write input file"
ReadError == "Error: Failed to read response"
Errors == {TimeoutError, WriteError, ReadError}

\* st_mtime of a file written at tick t, microsecond u
MTime(t, u) == t * UsecPerTick + u

\* no request was in a dead worker's hands
NoClaim == [valid |-> FALSE, name |-> NoName, content |-> NoText, removed |-> FALSE]

(* ------------------------------ Init --------------------------------- *)
Init ==
    /\ now = 0
    /\ micro = 0
    /\ inbox = <<>>
    /\ outbox = <<>>
    /\ spc = [s \in Submitters |-> "idle"]
    /\ timeout = [s \in Submitters |-> 1]
    /\ timestamp = [s \in Submitters |-> NoName]
    /\ start_time = [s \in Submitters |-> 0]
    /\ swake = [s \in Submitters |-> 0]
    /\ response_file = [s \in Submitters |-> NoName]
    /\ result = [s \in Submitters |-> "none"]
    /\ text = [s \in Submitters |-> PayloadText[s]]
    /\ processed_files = {}
    /\ monitoring = FALSE
    /\ wpc = "idle"
    /\ file_path = NoName
    /\ content = NoText
    /\ wresponse = NoName
    /\ mstate = [t \in Tasks |-> "none"]
    /\ msnap = [t \in Tasks |-> {}]
    /\ mwake = [t \in Tasks |-> 0]
    /\ delivered = {}
    /\ crashes = 0
    /\ selectedLog = <<>>
    /\ crashedOn = NoClaim

(* ------------------------------ clock -------------------------------- *)
\* half a second passes
Tick ==
    /\ now < MaxTime
    /\ now' = now + 1
    /\ micro' = 0
    /\ UNCHANGED <<inbox, outbox, subVars, srvVars, monVars, envVars>>

(* ---------------------- process_text (submitter) --------------------- *)
\* the locals of a call that has returned
Return(s, value) ==
    /\ result' = [result EXCEPT ![s] = value]
    /\ spc' = [spc EXCEPT ![s] = "done"]
    /\ timeout' = [timeout EXCEPT ![s] = 1]
    /\ timestamp' = [timestamp EXCEPT ![s] = NoName]
    /\ start_time' = [start_time EXCEPT ![s] = 0]
    /\ swake' = [swake EXCEPT ![s] = 0]
    /\ response_file' = [response_file EXCEPT ![s] = NoName]

\* line 41: the timestamp a call reads when the microsecond clock shows u
NewTimestamp(u) == Strftime(now, u)

\* lines 40-58: name the request, write it to the inbox, note the start time.
\* The microsecond clock shows u, no earlier than its last reading.
Submit(s) ==
    /\ spc[s] = "idle"
    /\ \A r \in Submitters : r < s => spc[r] # "idle"
    /\ \E to \in Timeouts, u \in micro..MaxMicro, written \in BOOLEAN :
        /\ now + to * TicksPerSecond <= MaxTime
        /\ micro' = u
        /\ IF written
           THEN /\ inbox' = Put(inbox, InputFilename(NewTimestamp(u)),
                                [content |-> Payload(s), mtime |-> MTime(now, u)])
                /\ timeout' = [timeout EXCEPT ![s] = to]
                /\ timestamp' = [timestamp EXCEPT ![s] = NewTimestamp(u)]
                /\ start_time' = [start_time EXCEPT ![s] = now]
                /\ swake' = [swake EXCEPT ![s] = now]
                /\ spc' = [spc EXCEPT ![s] = "poll"]
                /\ UNCHANGED <<result, response_file>>
           ELSE /\ Return(s, WriteError)
                /\ UNCHANGED inbox
    /\ UNCHANGED <<now, outbox, text, srvVars, monVars, envVars>>

\* the loop condition with the timeout taken for a number of ticks
LoopCondition_InTicks(s) == now - start_time[s] < timeout[s]

\* line 60: while time.time() - start_time < timeout
LoopCondition(s) == now - start_time[s] < timeout[s] * TicksPerSecond

\* a timeout that leaves the input file where it is
CleanUpInput_Skip(s) == inbox

\* lines 89-94: the inbox after the timeout's clean-up of the input file
CleanUpInput(s) ==
    IF Exists(inbox, InputFilename(timestamp[s]))
    THEN Unlink(inbox, InputFilename(timestamp[s]))
    ELSE inbox

\* lines 60-67 and 84-96: one test of the loop condition and what follows:
\* a response is found, or the call sleeps half a second, or it times out
Poll(s) ==
    /\ spc[s] = "poll"
    /\ now >= swake[s]
    /\ IF LoopCondition(s)
       THEN LET response_files == Glob(outbox, ResponsePattern(timestamp[s])) IN
            IF response_files # {}
            THEN /\ \E f \in response_files :
                        response_file' = [response_file EXCEPT ![s] = f]
                 /\ spc' = [spc EXCEPT ![s] = "found"]
                 /\ UNCHANGED <<inbox, swake, result, timeout, timestamp, start_time>>
            ELSE /\ swake' = [swake EXCEPT ![s] = now + 1]
                 /\ UNCHANGED <<inbox, spc, response_file, result, timeout, timestamp,
                                start_time>>
       ELSE /\ inbox' = CleanUpInput(s)
            /\ Return(s, TimeoutError)
    /\ UNCHANGED <<clockVars, outbox, text, srvVars, monVars, envVars>>

\* lines 69-81: read the response found and delete it, or fail.
\* `outcomes` are the ways read_text can end on a file that is there.
ReadResponseWith(s, outcomes) ==
    /\ spc[s] = "found"
    /\ \E readable \in outcomes :
        IF readable /\ Exists(outbox, response_file[s])
        THEN /\ Return(s, outbox[response_file[s]])
             /\ outbox' = Unlink(outbox, response_file[s])
        ELSE /\ Return(s, ReadError)
             /\ UNCHANGED outbox
    /\ UNCHANGED <<clockVars, inbox, text, srvVars, monVars, envVars>>

\* read_text fails only when the response file is gone
ReadResponse(s) == ReadResponseWith(s, {TRUE})

\* read_text fails when the response file is gone or cannot be read
ReadResponseFaulty(s) == ReadResponseWith(s, BOOLEAN)

(* ------------------------ main (batch submitter) --------------------- *)
\* str.startswith(prefix)
StartsWith(txt, prefix) ==
    Len(txt) >= Len(prefix) /\ SubSeq(txt, 1, Len(prefix)) = prefix

Whitespace == {" ", "\n", "\t"}

RECURSIVE Lstrip(_)
Lstrip(txt) ==
    IF Len(txt) > 0 /\ SubSeq(txt, 1, 1) \in Whitespace
    THEN Lstrip(SubSeq(txt, 2, Len(txt)))
    ELSE txt

RECURSIVE Rstrip(_)
Rstrip(txt) ==
    IF Len(txt) > 0 /\ SubSeq(txt, Len(txt), Len(txt)) \in Whitespace
    THEN Rstrip(SubSeq(txt, 1, Len(txt) - 1))
    ELSE txt

\* str.strip()
Strip(txt) == Rstrip(Lstrip(txt))

\* texts that a caller may hand over, or that stdin may hold
AnyTexts == {"alpha", "", " \n", "Error: teh cat"}

\* the calls are made with any of these texts
InitAnyText ==
    /\ text \in [Submitters -> AnyTexts]
    /\ now = 0
    /\ micro = 0
    /\ inbox = <<>>
    /\ outbox = <<>>
    /\ spc = [s \in Submitters |-> "idle"]
    /\ timeout = [s \in Submitters |-> 1]
    /\ timestamp = [s \in Submitters |-> NoName]
    /\ start_time = [s \in Submitters |-> 0]
    /\ swake = [s \in Submitters |-> 0]
    /\ response_file = [s \in Submitters |-> NoName]
    /\ result = [s \in Submitters |-> "none"]
    /\ processed_files = {}
    /\ monitoring = FALSE
    /\ wpc = "idle"
    /\ file_path = NoName
    /\ content = NoText
    /\ wresponse = NoName
    /\ mstate = [t \in Tasks |-> "none"]
    /\ msnap = [t \in Tasks |-> {}]
    /\ mwake = [t \in Tasks |-> 0]
    /\ delivered = {}
    /\ crashes = 0
    /\ selectedLog = <<>>
    /\ crashedOn = NoClaim

\* lines 127-131: stdin holds nothing but whitespace; main prints
\* "Error: No text provided" to stderr and exits with 1
MainRejects(s) ==
    /\ spc[s] = "idle"
    /\ \A r \in Submitters : r < s => spc[r] # "idle"
    /\ Strip(text[s]) = ""
    /\ spc' = [spc EXCEPT ![s] = "rejected"]
    /\ UNCHANGED <<clockVars, inbox, outbox, timeout, timestamp, start_time, swake,
                   response_file, result, text, srvVars, monVars, envVars>>

\* lines 136-138: main calls process_text with the text it read
MainSubmit(s) ==
    /\ Strip(text[s]) # ""
    /\ Submit(s)

\* line 155: sys.exit(0 if not result.startswith("Error:") else 1)
MainExitCode(r) == IF StartsWith(r, "Error:") THEN 1 ELSE 0

(* ------------------ TextEditorServer (worker process) ---------------- *)
\* a coroutine of the worker holds the event loop: a _process_next_file call
\* is under way, or a monitor task is between two of its sleeps
Busy == wpc # "idle" \/ \E t \in Tasks : mstate[t] \in {"iter", "call"}

\* a listing that does not look at processed_files
PendingFiles_Unfiltered == Glob(inbox, TxtPattern)

\* lines 200-205: inbox *.txt names not in processed_files
PendingFiles == {n \in Glob(inbox, TxtPattern) : n \notin processed_files}

\* a selection that takes any pending file
OldestPending_Any == PendingFiles

\* lines 274-277: the pending_files that get_status reports
StatusPendingFiles == {n \in Glob(inbox, TxtPattern) : n \notin processed_files}

\* lines 211-212: the candidates for pending_files[0] after the sort by st_mtime
OldestPending ==
    {n \in PendingFiles : \A m \in PendingFiles : inbox[n].mtime <= inbox[m].mtime}

\* lines 199-212 for a caller: nothing pending, or a file is selected
ScanAndSelect ==
    IF PendingFiles = {}
    THEN UNCHANGED <<wpc, file_path, selectedLog>>
    ELSE \E f \in OldestPending :
            /\ wpc' = "selected"
            /\ file_path' = f
            /\ selectedLog' = Append(selectedLog, f)

\* lines 167-169: the process_next_file tool is called
ProcessNextFile ==
    /\ ~Busy
    /\ PendingFiles # {}
    /\ ScanAndSelect
    /\ UNCHANGED <<clockVars, inbox, outbox, subVars, processed_files, monitoring,
                   content, wresponse, monVars, envVars>>

\* the monitor task (if any) that awaits the _process_next_file under way
ReturnToCaller == [t \in Tasks |-> IF mstate[t] = "call" THEN "iter" ELSE mstate[t]]

\* a worker that forgets to note the name
MarkProcessed_Skip == processed_files

\* lines 219 and 236: self.processed_files.add(file_path.name)
MarkProcessed == processed_files \cup {file_path}

\* lines 214-236: read the selected file; on failure mark it and return the
\* error, on success name the response and mark the file as processed.
\* `outcomes` are the ways read_text can end on a file that is there.
ReadSelectedWith(outcomes) ==
    /\ wpc = "selected"
    /\ \E readable \in outcomes :
        IF readable /\ Exists(inbox, file_path)
        THEN /\ content' = inbox[file_path].content
             /\ wresponse' = ResponseFileName(file_path, now)
             /\ processed_files' = MarkProcessed
             /\ wpc' = "marked"
             /\ UNCHANGED <<file_path, mstate>>
        ELSE /\ processed_files' = MarkProcessed
             /\ wpc' = "idle"
             /\ file_path' = NoName
             /\ mstate' = ReturnToCaller
             /\ UNCHANGED <<content, wresponse>>
    /\ UNCHANGED <<clockVars, inbox, outbox, subVars, monitoring, selectedLog,
                   msnap, mwake, envVars>>

\* read_text fails when the file is gone or cannot be read
ReadSelected == ReadSelectedWith(BOOLEAN)

\* read_text fails only when the file is gone
ReadSelectedOk == ReadSelectedWith({TRUE})

\* a worker that leaves the original file in the inbox
RemoveOriginal_Skip ==
    /\ wpc = "marked"
    /\ wpc' = "unlinked"
    /\ UNCHANGED <<clockVars, inbox, outbox, subVars, processed_files, monitoring,
                   file_path, content, wresponse, selectedLog, monVars, envVars>>

\* lines 238-242: remove the original file, whether or not it is still there
RemoveOriginal ==
    /\ wpc = "marked"
    /\ inbox' = Unlink(inbox, file_path)
    /\ wpc' = "unlinked"
    /\ UNCHANGED <<clockVars, outbox, subVars, processed_files, monitoring, file_path,
                   content, wresponse, selectedLog, monVars, envVars>>

\* line 245, then line 169 (the tool's caller receives the PROCESS_FILE text)
\* or lines 312-313 (the monitor loop logs it and drops it)
ReturnResult ==
    /\ wpc = "unlinked"
    /\ delivered' = IF \E t \in Tasks : mstate[t] = "call"
                    THEN delivered
                    ELSE delivered \cup {[name |-> wresponse, content |-> content]}
    /\ mstate' = ReturnToCaller
    /\ wpc' = "idle"
    /\ file_path' = NoName
    /\ content' = NoText
    /\ wresponse' = NoName
    /\ UNCHANGED <<clockVars, inbox, outbox, subVars, processed_files, monitoring,
                   selectedLog, msnap, mwake, crashes, crashedOn>>

\* lines 251-261: start_monitoring (when already monitoring it changes nothing)
StartMonitoring ==
    /\ ~Busy
    /\ ~monitoring
    /\ monitoring' = TRUE
    /\ \E t \in Tasks :
        /\ mstate[t] = "none"
        /\ \A r \in Tasks : r < t => mstate[r] # "none"
        /\ mstate' = [mstate EXCEPT ![t] = "sleep"]
        /\ mwake' = [mwake EXCEPT ![t] = now]
    /\ UNCHANGED <<clockVars, inbox, outbox, subVars, processed_files, wpc, file_path,
                   content, wresponse, selectedLog, msnap, envVars>>

\* lines 263-269: stop_monitoring (when not monitoring it changes nothing)
StopMonitoring ==
    /\ ~Busy
    /\ monitoring
    /\ monitoring' = FALSE
    /\ UNCHANGED <<clockVars, inbox, outbox, subVars, processed_files, wpc, file_path,
                   content, wresponse, selectedLog, monVars, envVars>>

\* a loop that an error in its body ends
AfterLoopError_Exit == "exited"

\* lines 318-320: an error in the loop body is logged and the task sleeps
AfterLoopError == "sleep"

\* lines 305-308 and 318-320: a task that is due to run tests the flag, then
\* lists the inbox or leaves the loop; a listing that fails is logged and
\* the task sleeps for five seconds. `outcomes` are the ways the listing
\* can end.
MonitorCheckWith(t, outcomes) ==
    /\ ~Busy
    /\ mstate[t] = "sleep"
    /\ now >= mwake[t]
    /\ \E listed \in outcomes :
        IF ~monitoring
        THEN /\ mstate' = [mstate EXCEPT ![t] = "exited"]
             /\ msnap' = [msnap EXCEPT ![t] = {}]
             /\ mwake' = [mwake EXCEPT ![t] = 0]
        ELSE IF listed
        THEN /\ mstate' = [mstate EXCEPT ![t] = "iter"]
             /\ msnap' = [msnap EXCEPT ![t] = Glob(inbox, TxtPattern)]
             /\ mwake' = [mwake EXCEPT ![t] = 0]
        ELSE /\ mstate' = [mstate EXCEPT ![t] = AfterLoopError]
             /\ msnap' = [msnap EXCEPT ![t] = {}]
             /\ mwake' = [mwake EXCEPT ![t] = now + ErrorSleepSeconds * TicksPerSecond]
    /\ UNCHANGED <<clockVars, inbox, outbox, subVars, srvVars, envVars>>

\* the listing of the inbox succeeds
MonitorCheck(t) == MonitorCheckWith(t, {TRUE})

\* the listing of the inbox may fail
MonitorCheckFaulty(t) == MonitorCheckWith(t, BOOLEAN)

\* lines 308-316: the next file of the listing; a file not in processed_files
\* leads to a _process_next_file call; after the last file the task sleeps
MonitorNext(t) ==
    /\ mstate[t] = "iter"
    /\ wpc = "idle"
    /\ IF msnap[t] = {}
       THEN /\ mstate' = [mstate EXCEPT ![t] = "sleep"]
            /\ mwake' = [mwake EXCEPT ![t] = now + MonitorSleepSeconds * TicksPerSecond]
            /\ UNCHANGED <<msnap, wpc, file_path, selectedLog>>
       ELSE \E f \in msnap[t] :
            /\ msnap' = [msnap EXCEPT ![t] = msnap[t] \ {f}]
            /\ UNCHANGED mwake
            /\ IF f \in processed_files
               THEN UNCHANGED <<mstate, wpc, file_path, selectedLog>>
               ELSE /\ ScanAndSelect
                    /\ mstate' = [mstate EXCEPT ![t] =
                                     IF PendingFiles = {} THEN "iter" ELSE "call"]
    /\ UNCHANGED <<clockVars, inbox, outbox, subVars, processed_files, monitoring,
                   content, wresponse, envVars>>

\* the worker process dies; lines 25-31 give its successor an empty
\* processed_files and monitoring = False
WorkerCrash ==
    /\ crashes < MaxCrashes
    /\ crashes' = crashes + 1
    /\ crashedOn' = IF wpc \in {"marked", "unlinked"}
                    THEN [valid |-> TRUE, name |-> file_path, content |-> content,
                          removed |-> (wpc = "unlinked")]
                    ELSE crashedOn
    /\ processed_files' = {}
    /\ monitoring' = FALSE
    /\ wpc' = "idle"
    /\ file_path' = NoName
    /\ content' = NoText
    /\ wresponse' = NoName
    /\ selectedLog' = <<>>
    /\ mstate' = [t \in Tasks |-> "none"]
    /\ msnap' = [t \in Tasks |-> {}]
    /\ mwake' = [t \in Tasks |-> 0]
    /\ UNCHANGED <<clockVars, inbox, outbox, subVars, delivered>>

(* ------------------------ the MCP client side ------------------------ *)
\* the transformation the client applies to the text: the identity
Transform(txt) == txt

\* the client that called process_next_file writes the response it was asked
\* for under the name the PROCESS_FILE line gave it
WriteResponse ==
    /\ \E d \in delivered :
        /\ outbox' = Put(outbox, d.name, Transform(d.content))
        /\ delivered' = delivered \ {d}
    /\ UNCHANGED <<clockVars, inbox, subVars, srvVars, monVars, crashes, crashedOn>>

(* --------------------------- specifications -------------------------- *)
SubmitterNext ==
    \/ Tick
    \/ \E s \in Submitters : Submit(s)
    \/ \E s \in Submitters : Poll(s)
    \/ \E s \in Submitters : ReadResponse(s)

ToolNext ==
    \/ ProcessNextFile
    \/ ReadSelected
    \/ RemoveOriginal
    \/ ReturnResult
    \/ WriteResponse

MonitorNextStep ==
    \/ StartMonitoring
    \/ StopMonitoring
    \/ \E t \in Tasks : MonitorCheck(t)
    \/ \E t \in Tasks : MonitorNext(t)

\* one worker process, its tools and its monitor loop, and the submitters
Next == SubmitterNext \/ ToolNext \/ MonitorNextStep
Spec == Init /\ [][Next]_vars

\* the submitters and a worker driven by process_next_file calls alone
ToolOnlyNext == SubmitterNext \/ ToolNext
ToolOnlySpec == Init /\ [][ToolOnlyNext]_vars

\* the clock advances and every process_text call keeps running
SubmitterFairness ==
    /\ WF_vars(Tick)
    /\ \A s \in Submitters : WF_vars(Poll(s)) /\ WF_vars(ReadResponse(s))
FairSpec == ToolOnlySpec /\ SubmitterFairness

\* a worker process that may die and be started afresh
CrashNext == SubmitterNext \/ ToolNext \/ WorkerCrash
CrashSpec == Init /\ [][CrashNext]_vars

\* no worker at all: the submitters and the clock
NoWorkerNext ==
    \/ Tick
    \/ \E s \in Submitters : Submit(s)
    \/ \E s \in Submitters : Poll(s)
NoWorkerSpec ==
    /\ Init /\ [][NoWorkerNext]_vars
    /\ WF_vars(Tick)
    /\ \A s \in Submitters : WF_vars(Poll(s))

\* a worker whose monitor loop was started and is never stopped, on a
\* filesystem whose files can be read; the loop hands its result to nobody,
\* so no step of this scenario puts a file into the outbox
MonitoringNext ==
    \/ Tick
    \/ \E s \in Submitters : Submit(s)
    \/ \E s \in Submitters : Poll(s)
    \/ StartMonitoring
    \/ \E t \in Tasks : MonitorCheck(t)
    \/ \E t \in Tasks : MonitorNext(t)
    \/ ReadSelectedOk
    \/ RemoveOriginal
    \/ ReturnResult
MonitoringSpec == Init /\ [][MonitoringNext]_vars

\* the batch submitter: main reads stdin and calls process_text, beside a
\* worker driven by process_next_file calls
BatchNext ==
    \/ Tick
    \/ \E s \in Submitters : MainRejects(s)
    \/ \E s \in Submitters : MainSubmit(s)
    \/ \E s \in Submitters : Poll(s)
    \/ \E s \in Submitters : ReadResponse(s)
    \/ ToolNext
BatchSpec == InitAnyText /\ [][BatchNext]_vars

\* process_text called with any text, beside a worker driven by
\* process_next_file calls
LibrarySpec == InitAnyText /\ [][ToolOnlyNext]_vars

\* a worker whose monitor loop is started and stopped, on a filesystem whose
\* listings and reads can fail; nobody calls process_next_file
FaultyMonitorNext ==
    \/ Tick
    \/ \E s \in Submitters : Submit(s)
    \/ \E s \in Submitters : Poll(s)
    \/ StartMonitoring
    \/ StopMonitoring
    \/ \E t \in Tasks : MonitorCheckFaulty(t)
    \/ \E t \in Tasks : MonitorNext(t)
    \/ ReadSelected
    \/ RemoveOriginal
    \/ ReturnResult
FaultyMonitorSpec == Init /\ [][FaultyMonitorNext]_vars

\* the submitters, whose read of a response can fail, and a worker driven by
\* process_next_file calls
ReadFaultNext ==
    \/ Tick
    \/ \E s \in Submitters : Submit(s)
    \/ \E s \in Submitters : Poll(s)
    \/ \E s \in Submitters : ReadResponseFaulty(s)
    \/ ToolNext
ReadFaultSpec == Init /\ [][ReadFaultNext]_vars

(* ------------------------------ claims ------------------------------- *)
\* a process_text call whose request file is in place and that has not returned
Live(s) == spc[s] \in {"poll", "found"}

\* the call returns in this step
Returns(s) == Live(s) /\ spc'[s] = "done"

\* the time since the call noted its start has reached its timeout
TimeoutReached(s) == now - start_time[s] >= timeout[s] * TicksPerSecond

C3_NoCrossDelivery ==
    \A s \in Submitters :
        (spc[s] = "done" /\ result[s] \notin Errors) => result[s] = Transform(Payload(s))

\* C4 (as claimed): two calls whose requests are live at the same time gave
\* them different file names.
C4_DistinctLiveNames ==
    \A s1, s2 \in Submitters :
        (s1 # s2 /\ Live(s1) /\ Live(s2))
            => InputFilename(timestamp[s1]) # InputFilename(timestamp[s2])

\* the request the worker has read and named a response for is the one
\* call s deposited
Handling(s) ==
    /\ wpc \in {"marked", "unlinked"}
    /\ Live(s)
    /\ file_path = InputFilename(timestamp[s])

\* C7: the response name the worker computes for a request matches the glob
\* pattern its submitter polls the outbox for.
C7_ResponseNameMatchesPattern ==
    \A s \in Submitters :
        Handling(s) => GlobMatch(ResponsePattern(timestamp[s]), wresponse)

C7_Witness == \E s \in Submitters : Handling(s)

\* C8 (as claimed): the response name the worker computes is the request's
\* own file name.
C8_ExactName == wpc \in {"marked", "unlinked"} => wresponse = file_path

\* C1 (as claimed): with the monitor loop running, a call whose request the
\* worker has claimed and is done with returns its payload unchanged, not an
\* error.
C1_ReturnsPayload ==
    [][\A s \in Submitters :
        (Returns(s) /\ InputFilename(timestamp[s]) \in processed_files /\ wpc = "idle")
            => result'[s] = Transform(Payload(s))]_vars

\* C5: within one worker process no inbox name is selected twice.
C5_SelectedAtMostOnce ==
    \A i, j \in 1..Len(selectedLog) : i # j => selectedLog[i] # selectedLog[j]

\* a claimed name is in the inbox while the worker goes on selecting
C5_Witness ==
    /\ Len(selectedLog) >= 2
    /\ \E n \in processed_files : Exists(inbox, n)

\* C6: every call that deposited its request returns; what it returned
\* stays; a timeout error is returned only once the timeout is reached; a
\* response is returned only as the content of an outbox file that matches
\* the call's pattern.
C6_TerminatesWithOneOutcome ==
    /\ \A s \in Submitters : Live(s) ~> (spc[s] = "done")
    /\ [][\A s \in Submitters :
            /\ spc[s] = "done" => (spc'[s] = "done" /\ result'[s] = result[s])
            /\ Returns(s) =>
                /\ result'[s] = TimeoutError => TimeoutReached(s)
                /\ result'[s] \notin Errors =>
                    /\ GlobMatch(ResponsePattern(timestamp[s]), response_file[s])
                    /\ Exists(outbox, response_file[s])
                    /\ result'[s] = outbox[response_file[s]]]_vars

C6_Witness ==
    /\ \E s \in Submitters : spc[s] = "done" /\ result[s] = TimeoutError
    /\ \E s \in Submitters : spc[s] = "done" /\ result[s] \notin Errors

\* C9 (as claimed): when a call returns a response, the response file it read
\* is gone from the outbox and its request file is not in the inbox.
C9_SuccessLeavesNoFile ==
    [][\A s \in Submitters :
        (Returns(s) /\ result'[s] \notin Errors)
            => /\ ~Exists(outbox', response_file[s])
               /\ ~Exists(inbox', InputFilename(timestamp[s]))]_vars

\* the glob pattern of the responses to the request file `name`
ResponsesTo(name) == <<"response", "_">> \o Stem(name) \o <<"_", "*", ".txt">>

\* the worker holds, or the inbox or the outbox or the MCP client holds, the
\* request (or a response to it) that a dead worker had claimed
Rediscovered ==
    \/ /\ Exists(inbox, crashedOn.name)
       /\ inbox[crashedOn.name].content = crashedOn.content
    \/ /\ wpc \in {"marked", "unlinked"}
       /\ file_path = crashedOn.name
       /\ content = crashedOn.content
    \/ \E d \in delivered :
        d.content = crashedOn.content /\ GlobMatch(ResponsesTo(crashedOn.name), d.name)
    \/ \E n \in DOMAIN outbox :
        outbox[n] = Transform(crashedOn.content) /\ GlobMatch(ResponsesTo(crashedOn.name), n)

\* C10 (as claimed): a request that a worker had claimed when it died is in
\* neither directory, and the fresh worker does not come to hold it.
C10_ClaimedThenLost == crashedOn.valid => ~Rediscovered

\* C10 (amended): the same, of a request the worker had also removed from
\* the inbox when it died.
C10_RemovedThenLost == (crashedOn.valid /\ crashedOn.removed) => ~Rediscovered

\* a fresh worker has scanned the inbox after such a crash
C10_Witness == crashedOn.valid /\ crashedOn.removed /\ wpc = "selected"

\* the call is about to return the content of the response file it found
ObtainedResponse(s) == spc[s] = "found" /\ Exists(outbox, response_file[s])

\* process_text returns in this step, from any of its return statements
Exits(s) == spc[s] \in {"idle", "poll", "found"} /\ spc'[s] = "done"

\* C11 (as claimed): main exits with 0 exactly when process_text returned
\* the content of a response, whatever that content is, and with 1 otherwise.
C11_ExitCodeTellsSuccess ==
    [][\A s \in Submitters :
        Exits(s) => (MainExitCode(result'[s]) = 0 <=> ObtainedResponse(s))]_vars

\* C12 (as claimed): when the worker is done with a request whose content is
\* empty, an error response to that request is in the outbox.
C12_EmptyGetsErrorResponse ==
    [][(wpc = "unlinked" /\ wpc' = "idle" /\ content = "")
        => \E n \in DOMAIN outbox' :
            /\ GlobMatch(ResponsesTo(file_path), n)
            /\ StartsWith(outbox'[n], "Error")]_vars

\* C13: a scan that selects a request selects an inbox file that is not in
\* processed_files and whose modification time is minimal among those, so of
\* two unclaimed requests in the inbox the strictly older is taken first.
C13_OldestSelected ==
    [][(wpc = "idle" /\ wpc' = "selected")
        => /\ file_path' \in DOMAIN inbox \ processed_files
           /\ \A m \in DOMAIN inbox \ processed_files :
                inbox[file_path'].mtime <= inbox[m].mtime]_vars

\* a request was selected while a younger unclaimed one was in the inbox
C13_Witness ==
    /\ wpc = "selected"
    /\ Exists(inbox, file_path)
    /\ \E m \in DOMAIN inbox \ processed_files :
        inbox[m].mtime > inbox[file_path].mtime

\* C14 (as claimed): from the moment a request is chosen, before it is read,
\* its name is in processed_files.
C14_MarkedBeforeRead == wpc = "selected" => file_path \in processed_files

\* C14 (amended): the step that reads the chosen request, whether the read
\* succeeds or fails, puts its name into processed_files; the name is there
\* before the file is removed and when the call returns; and a name in
\* processed_files is not chosen again.
C14_MarkedByReadStep ==
    /\ [](wpc \in {"marked", "unlinked"} => file_path \in processed_files)
    /\ [][/\ (wpc = "selected" /\ wpc' # "selected") => file_path \in processed_files'
          /\ (wpc = "idle" /\ wpc' = "selected") => file_path' \notin processed_files]_vars

\* the read of the one request chosen so far failed and left its file behind
C14_Witness ==
    /\ wpc = "idle"
    /\ Len(selectedLog) = 1
    /\ selectedLog[1] \in processed_files
    /\ Exists(inbox, selectedLog[1])

\* C15 (as claimed): when the read of a chosen request fails, the call
\* returns with the request file gone from the inbox and an error response
\* to it in the outbox.
C15_FailedReadAnswered ==
    [][(wpc = "selected" /\ wpc' = "idle")
        => /\ ~Exists(inbox', file_path)
           /\ \E n \in DOMAIN outbox' :
                /\ GlobMatch(ResponsesTo(file_path), n)
                /\ StartsWith(outbox'[n], "Error")]_vars

\* C16 (as claimed): when the worker is done with a request it processed
\* successfully, the file it read is gone from the inbox and the response is
\* in the outbox under the name computed for it, or at least in the hands of
\* a caller that was told to write it there.
C16_WorkerReachesDone ==
    [][(wpc = "unlinked" /\ wpc' = "idle")
        => /\ ~(Exists(inbox', file_path) /\ inbox'[file_path].content = content)
           /\ \/ Exists(outbox', wresponse)
              \/ \E d \in delivered' : d.name = wresponse]_vars

\* the monitor loop task t is alive
Alive(t) == mstate[t] \in {"sleep", "iter", "call"}

\* C17: a monitor loop task that is alive stays alive, whatever fails in the
\* listing or in the processing of a request, until it finds the monitoring
\* flag false at its loop test; only then does it leave the loop.
C17_LoopSurvivesErrors ==
    [][\A t \in Tasks :
        Alive(t) => \/ Alive(t)'
                    \/ mstate'[t] = "exited" /\ ~monitoring]_vars

\* a task sleeps the five seconds that follow an error while the flag is true
C17_Witness ==
    \E t \in Tasks :
        /\ mstate[t] = "sleep"
        /\ monitoring
        /\ mwake[t] > now + MonitorSleepSeconds * TicksPerSecond

\* C18 (as claimed): a call that deposited its request never returns because
\* a response file it found could not be read; the one error it returns is
\* the timeout, once the timeout is reached.
C18_OnlyTimeoutSurfaces ==
    [][\A s \in Submitters :
        (Returns(s) /\ ~ObtainedResponse(s))
            => result'[s] = TimeoutError /\ TimeoutReached(s)]_vars

\* stop_monitoring was called after task t was started: start_monitoring
\* creates the next task only when it finds the flag false, and the flag has
\* been true since task t was created unless stop_monitoring cleared it
Stopped(t) == t < MaxTasks /\ mstate[t + 1] # "none"

\* C19 (as claimed): a monitor loop task that was sent the stop signal leaves
\* the loop at its next test of the flag and claims no further request,
\* whatever start_monitoring and stop_monitoring calls follow.
C19_StopStopsTheLoop ==
    [][\A t \in Tasks :
        Stopped(t) =>
            /\ mstate[t] = "sleep" => mstate'[t] \in {"sleep", "exited"}
            /\ mstate[t] # "call" => mstate'[t] # "call"]_vars

\* C20 (as claimed): at most one monitor loop task is alive at any time.
C20_OneLoopTask == Cardinality({t \in Tasks : Alive(t)}) <= 1

\* C21 (as claimed): every response file in the outbox is awaited by a call
\* that has not returned, so none is left behind by a call that timed out.
C21_NoOrphanResponse ==
    \A n \in DOMAIN outbox :
        \E s \in Submitters : Live(s) /\ GlobMatch(ResponsePattern(timestamp[s]), n)

\* C22 (as claimed): when no process_next_file call is under way, no name in
\* processed_files is the name of an inbox file, and get_status reports
\* every inbox file as pending.
C22_ClaimedIsConsumed ==
    wpc = "idle" =>
        /\ \A n \in processed_files : ~Exists(inbox, n)
        /\ StatusPendingFiles = Glob(inbox, TxtPattern)

====
